---- MODULE Spec2Model ----
(***************************************************************************)
(* Listener matchers of slack_bolt (listener_matcher/builtins.py).         *)
(*                                                                         *)
(* A caller hands a constraint to a builder (command, event, shortcut,     *)
(* action, view, options or one of their sub-builders), which returns a    *)
(* matcher or raises.  The dispatcher then evaluates the matcher on        *)
(* request bodies.  Python values are modelled as tagged records, Python   *)
(* strings as sequences of one-character strings (so that re.search can be *)
(* computed), and the outcome of a call as one of the strings of Outcomes: *)
(* the value returned, or the exception raised.                            *)
(***************************************************************************)
EXTENDS Integers, Sequences, FiniteSets, TLC

VARIABLES
    constraints,  \* the caller's constraint object, as it is now
    built,        \* the constraint object as it was when the builder was called
    reg,          \* what the builder call produced: a matcher, or an exception
    body,         \* the request body of the evaluation in hand
    result,       \* what the evaluation in hand has produced so far
    mutations,    \* how often the caller changed its constraint mapping
    m_args,       \* arguments of the latest direct call of _matches
    m_result      \* what that call produced

vars == <<constraints, built, reg, body, result, mutations, m_args, m_result>>

----------------------------------------------------------------------------
(* Bounds *)

\* longest string handed to _matches directly
MaxLen == 2
\* how often the caller may change its constraint mapping after the build
MaxMutations == 1

----------------------------------------------------------------------------
(* Python values *)

Val(t, s, bol, eol) == [t |-> t, s |-> s, bol |-> bol, eol |-> eol]

\* the key is not in the mapping
Absent == Val("absent", <<>>, FALSE, FALSE)
\* Python's None
None == Val("none", <<>>, FALSE, FALSE)
\* a str
Str(s) == Val("str", s, FALSE, FALSE)
\* re.compile of the literal text s, with ^ in front when bol and $ behind when eol
Pattern(s, bol, eol) == Val("pattern", s, bol, eol)
\* an object that is neither None, nor a str, nor a Pattern, nor a mapping (an int, say)
Other == Val("other", <<>>, FALSE, FALSE)

Bool(b) == IF b THEN "True" ELSE "False"

\* what a call can produce: the value returned or the exception raised
Outcomes == {"True", "False", "None", "KeyError", "TypeError", "BoltError"}

\* the strings the code and the platform's payloads spell out
S_event_callback ==
    <<"e","v","e","n","t","_","c","a","l","l","b","a","c","k">>
S_shortcut ==
    <<"s","h","o","r","t","c","u","t">>
S_message_action ==
    <<"m","e","s","s","a","g","e","_","a","c","t","i","o","n">>
S_block_actions ==
    <<"b","l","o","c","k","_","a","c","t","i","o","n","s">>
S_interactive_message ==
    <<"i","n","t","e","r","a","c","t","i","v","e","_","m","e","s","s","a","g","e">>
S_dialog_submission ==
    <<"d","i","a","l","o","g","_","s","u","b","m","i","s","s","i","o","n">>
S_dialog_cancellation ==
    <<"d","i","a","l","o","g","_","c","a","n","c","e","l","l","a","t","i","o","n">>
S_workflow_step_edit ==
    <<"w","o","r","k","f","l","o","w","_","s","t","e","p","_","e","d","i","t">>
S_view_submission ==
    <<"v","i","e","w","_","s","u","b","m","i","s","s","i","o","n">>
S_view_closed ==
    <<"v","i","e","w","_","c","l","o","s","e","d">>
S_block_suggestion ==
    <<"b","l","o","c","k","_","s","u","g","g","e","s","t","i","o","n">>
S_dialog_suggestion ==
    <<"d","i","a","l","o","g","_","s","u","g","g","e","s","t","i","o","n">>
S_workflow_step_execute ==
    <<"w","o","r","k","f","l","o","w","_","s","t","e","p","_","e","x","e","c","u","t","e">>
S_message ==
    <<"m","e","s","s","a","g","e">>
S_message_deleted ==
    <<"m","e","s","s","a","g","e","_","d","e","l","e","t","e","d">>
S_workflow_step ==
    <<"w","o","r","k","f","l","o","w","_","s","t","e","p">>
S_modal ==
    <<"m","o","d","a","l">>
S_unknown_type ==
    <<"u","n","k","n","o","w","n","_","t","y","p","e">>
\* the short identifiers used as callback_id, action_id, block_id and command
S_a == <<"a">>
S_ab == <<"a", "b">>
S_z == <<"z">>

----------------------------------------------------------------------------
(* The pattern matcher *)

\* the compiled pattern p matches input starting at position i
MatchAt(p, input, i) ==
    /\ i + Len(p.s) - 1 <= Len(input)
    /\ SubSeq(input, i, i + Len(p.s) - 1) = p.s
    /\ p.bol => i = 1
    /\ p.eol => i + Len(p.s) - 1 = Len(input)

\* pattern.search(input) is not None
search(p, input) == \E i \in 1..(Len(input) + 1) : MatchAt(p, input, i)

\* pattern.fullmatch(input) is not None
fullmatch(p, input) == input = p.s

matches_fullmatch(str_or_pattern, input) ==
    IF str_or_pattern.t = "none" \/ input.t = "none" THEN "False"
    ELSE IF str_or_pattern.t = "str" THEN Bool(input = str_or_pattern)
    ELSE IF str_or_pattern.t = "pattern"
         THEN IF input.t = "str" THEN Bool(fullmatch(str_or_pattern, input.s))
              ELSE "TypeError"
    ELSE "BoltError"

_matches(str_or_pattern, input) ==
    IF str_or_pattern.t = "none" \/ input.t = "none" THEN "False"
    ELSE IF str_or_pattern.t = "str" THEN Bool(input = str_or_pattern)
    ELSE IF str_or_pattern.t = "pattern"
         THEN IF input.t = "str" THEN Bool(search(str_or_pattern, input.s))
              ELSE "TypeError"
    ELSE "BoltError"

\* _matches(c, m["k"]) and _matches(d["j"], m["k"]): a subscript of a key that
\* is not in its mapping raises KeyError before _matches is entered
MatchItem(c, item) ==
    IF c.t = "absent" \/ item.t = "absent" THEN "KeyError" ELSE _matches(c, item)

\* _matches(c, m.get("k")): a key that is not in the mapping reads as None
MatchGet(c, item) == _matches(c, IF item.t = "absent" THEN None ELSE item)

\* x and y, where x is a bool: y is evaluated only when x is True
PyAnd(x, y) == IF x THEN y ELSE "False"

\* x and y, where x is the outcome of a call
PyAndO(x, y) == IF x = "True" THEN y ELSE x

\* x or y, where x is the outcome of a call: y is evaluated only when x is falsy
PyOr(x, y) == IF x \in {"False", "None"} THEN y ELSE x

----------------------------------------------------------------------------
(* Request bodies *)

\* a structured constraint: a mapping over the recognised keys
Dict(type, subtype, callback_id, action_id, block_id) ==
    [type |-> type, subtype |-> subtype, callback_id |-> callback_id,
     action_id |-> action_id, block_id |-> block_id]

EmptyDict == Dict(Absent, Absent, Absent, Absent, Absent)

Keys == {"type", "subtype", "callback_id", "action_id", "block_id"}

NoEvent == [present |-> FALSE, type |-> Absent, subtype |-> Absent,
            callback_id |-> Absent, workflow_step |-> FALSE]
NoAction == [present |-> FALSE, action_id |-> Absent, block_id |-> Absent]
NoView == [present |-> FALSE, callback_id |-> Absent, type |-> Absent]

\* the body {}: every other body sets some of these keys.
\* event is body["event"], action is body["actions"][0], view is body["view"]
EmptyBody ==
    [type |-> Absent, command |-> Absent, callback_id |-> Absent,
     action_id |-> Absent, event |-> NoEvent, action |-> NoAction, view |-> NoView]

\* what a field of a body may hold: nothing, or one of two identifiers
Ids == {Str(S_a), Str(S_ab)}
Field == {Absent} \cup Ids

CallbackTypes ==
    {S_shortcut, S_message_action, S_interactive_message, S_dialog_submission,
     S_dialog_cancellation, S_workflow_step_edit, S_dialog_suggestion}

CommandBodies == {[EmptyBody EXCEPT !.command = c] : c \in Ids}

CallbackBodies ==
    {[EmptyBody EXCEPT !.type = Str(t), !.callback_id = c] :
        t \in CallbackTypes, c \in Field}

SuggestionBodies ==
    {[EmptyBody EXCEPT !.type = Str(S_block_suggestion), !.action_id = a] : a \in Field}

ActionBodies ==
    {[EmptyBody EXCEPT !.type = Str(S_block_actions)]} \cup
    {[EmptyBody EXCEPT !.type = Str(S_block_actions),
                       !.action = [present |-> TRUE, action_id |-> a, block_id |-> b]] :
        a \in Field, b \in Field}

ViewBodies ==
    {[EmptyBody EXCEPT !.type = Str(t)] : t \in {S_view_submission, S_view_closed}} \cup
    {[EmptyBody EXCEPT !.type = Str(t),
                       !.view = [present |-> TRUE, callback_id |-> c, type |-> Str(v)]] :
        t \in {S_view_submission, S_view_closed}, c \in Field,
        v \in {S_modal, S_workflow_step}}

MessageEvents ==
    {[present |-> TRUE, type |-> t, subtype |-> s, callback_id |-> Absent,
      workflow_step |-> FALSE] :
        t \in {Absent, Str(S_message)},
        s \in {Absent, None, Str(S_message_deleted), Str(S_a)}}

StepEvents ==
    {[present |-> TRUE, type |-> Str(S_workflow_step_execute), subtype |-> Absent,
      callback_id |-> c, workflow_step |-> w] :
        c \in Field, w \in BOOLEAN}

EventBodies ==
    {[EmptyBody EXCEPT !.type = Str(S_event_callback)]} \cup
    {[EmptyBody EXCEPT !.type = Str(S_event_callback), !.event = e] :
        e \in MessageEvents \cup StepEvents}

Bodies ==
    {EmptyBody} \cup CommandBodies \cup CallbackBodies \cup SuggestionBodies
    \cup ActionBodies \cup ViewBodies \cup EventBodies

----------------------------------------------------------------------------
(* slack_bolt.request.payload_utils: the payload classifier *)

_is_expected_type(b, t) == b.type = Str(t)

is_event(b) ==
    _is_expected_type(b, S_event_callback) /\ b.event.present /\ b.event.type /= Absent

is_slash_command(b) == b.command /= Absent

is_global_shortcut(b) == _is_expected_type(b, S_shortcut) /\ b.callback_id /= Absent

is_message_shortcut(b) ==
    _is_expected_type(b, S_message_action) /\ b.callback_id /= Absent

is_shortcut(b) == is_global_shortcut(b) \/ is_message_shortcut(b)

is_block_actions(b) == _is_expected_type(b, S_block_actions) /\ b.action.present

is_attachment_action(b) ==
    _is_expected_type(b, S_interactive_message) /\ b.callback_id /= Absent

is_dialog_submission(b) ==
    _is_expected_type(b, S_dialog_submission) /\ b.callback_id /= Absent

is_dialog_cancellation(b) ==
    _is_expected_type(b, S_dialog_cancellation) /\ b.callback_id /= Absent

is_workflow_step_edit(b) ==
    _is_expected_type(b, S_workflow_step_edit) /\ b.callback_id /= Absent

is_view_submission(b) ==
    _is_expected_type(b, S_view_submission) /\ b.view.present
    /\ b.view.callback_id /= Absent

is_view_closed(b) ==
    _is_expected_type(b, S_view_closed) /\ b.view.present
    /\ b.view.callback_id /= Absent

is_workflow_step_save(b) ==
    is_view_submission(b) /\ b.view.type = Str(S_workflow_step)

is_block_suggestion(b) ==
    _is_expected_type(b, S_block_suggestion) /\ b.action_id /= Absent

is_dialog_suggestion(b) ==
    _is_expected_type(b, S_dialog_suggestion) /\ b.callback_id /= Absent

\* body["actions"][0]
to_action(b) == b.action

----------------------------------------------------------------------------
(* Constraints, and the predicates the builders close over *)

\* a constraint that is not a mapping
Scalar(v) == [shape |-> "scalar", v |-> v, d |-> EmptyDict]
\* a constraint that is a mapping
Mapping(d) == [shape |-> "dict", v |-> Absent, d |-> d]

\* isinstance(constraints, (str, Pattern))
IsStrOrPattern(c) == c.shape = "scalar" /\ c.v.t \in {"str", "pattern"}

\* "subtype" in event
HasSubtype(e) == e.subtype /= Absent

\* func of event(), constraints a str or a Pattern
event_type_func(event_type, b) ==
    PyAnd(is_event(b), MatchItem(event_type, b.event.type))

event_dict_func_ignoring_subtype(c, b) ==
    IF is_event(b)
    THEN LET typed == MatchItem(c.type, b.event.type)
         IN  IF typed /= "True" THEN typed ELSE "True"
    ELSE "False"

\* func of event(), constraints a mapping with the key type
event_dict_func(c, b) ==
    IF is_event(b)
    THEN LET typed == MatchItem(c.type, b.event.type)
         IN  IF typed /= "True" THEN typed
             ELSE IF c.subtype /= Absent
                  THEN IF c.subtype = None
                       THEN Bool(~HasSubtype(b.event))
                       ELSE PyAnd(HasSubtype(b.event),
                                  _matches(c.subtype, b.event.subtype))
                  ELSE "True"
    ELSE "False"

workflow_step_execute_func(callback_id, b) ==
    PyAnd(is_event(b),
      PyAndO(MatchItem(Str(S_workflow_step_execute), b.event.type),
        PyAnd(b.event.workflow_step,
              MatchItem(callback_id, b.event.callback_id))))

command_func(command_, b) ==
    PyAnd(is_slash_command(b), MatchItem(command_, b.command))

shortcut_func(callback_id, b) ==
    PyAnd(is_shortcut(b), MatchItem(callback_id, b.callback_id))

global_shortcut_func(callback_id, b) ==
    PyAnd(is_global_shortcut(b), MatchItem(callback_id, b.callback_id))

message_shortcut_func(callback_id, b) ==
    PyAnd(is_message_shortcut(b), MatchItem(callback_id, b.callback_id))

IsRaise(o) == o \notin {"True", "False", "None"}

block_action_ignoring_block_id(c, b) ==
    IF ~is_block_actions(b) THEN "False"
    ELSE IF IsStrOrPattern(c) THEN MatchItem(c.v, to_action(b).action_id)
    ELSE IF c.shape = "dict" THEN MatchItem(c.d.action_id, to_action(b).action_id)
    ELSE "None"

_block_action(c, b) ==
    IF ~is_block_actions(b) THEN "False"
    ELSE LET action_ == to_action(b) IN
         IF IsStrOrPattern(c) THEN MatchItem(c.v, action_.action_id)
         ELSE IF c.shape = "dict"
         THEN LET block_id == IF c.d.block_id = Absent THEN None ELSE c.d.block_id
                  block_id_matched ==
                      IF block_id = None THEN "True"
                      ELSE MatchGet(block_id, action_.block_id)
                  action_id_matched == MatchItem(c.d.action_id, action_.action_id)
              IN  IF IsRaise(block_id_matched) THEN block_id_matched
                  ELSE IF IsRaise(action_id_matched) THEN action_id_matched
                  ELSE PyAndO(block_id_matched, action_id_matched)
         ELSE "None"

_attachment_action(callback_id, b) ==
    PyAnd(is_attachment_action(b), MatchItem(callback_id, b.callback_id))

_dialog_submission(callback_id, b) ==
    PyAnd(is_dialog_submission(b), MatchItem(callback_id, b.callback_id))

_dialog_cancellation(callback_id, b) ==
    PyAnd(is_dialog_cancellation(b), MatchItem(callback_id, b.callback_id))

_workflow_step_edit(callback_id, b) ==
    PyAnd(is_workflow_step_edit(b), MatchItem(callback_id, b.callback_id))

\* func of action(), constraints a str or a Pattern
action_func(c, b) ==
    PyOr(_block_action(Scalar(c), b),
      PyOr(_attachment_action(c, b),
        PyOr(_dialog_submission(c, b),
          PyOr(_dialog_cancellation(c, b),
               _workflow_step_edit(c, b)))))

view_submission_func(callback_id, b) ==
    PyAnd(is_view_submission(b), MatchItem(callback_id, b.view.callback_id))

view_closed_func(callback_id, b) ==
    PyAnd(is_view_closed(b), MatchItem(callback_id, b.view.callback_id))

workflow_step_save_func(callback_id, b) ==
    PyAnd(is_workflow_step_save(b), MatchItem(callback_id, b.view.callback_id))

_block_suggestion(action_id, b) ==
    PyAnd(is_block_suggestion(b), MatchItem(action_id, b.action_id))

_dialog_suggestion(callback_id, b) ==
    PyAnd(is_dialog_suggestion(b), MatchItem(callback_id, b.callback_id))

\* func of options(), constraints a str or a Pattern
options_func(c, b) == PyOr(_block_suggestion(c, b), _dialog_suggestion(c, b))

\* A closure: the def it was made from and its free variable.  A str, a
\* Pattern or any other immutable object is held in cell; when ref, the free
\* variable is the caller's mapping itself, read when the closure runs.
Closure(fn, cell) == [fn |-> fn, cell |-> cell, ref |-> FALSE]
ClosureOverMapping(fn) == [fn |-> fn, cell |-> Absent, ref |-> TRUE]
NoFunc == Closure("none", Absent)

\* func(body), with the caller's constraint object being obj
Call(func, b, obj) ==
    CASE func.fn = "event_type" -> event_type_func(func.cell, b)
      [] func.fn = "event_dict" -> event_dict_func(obj.d, b)
      [] func.fn = "workflow_step_execute" -> workflow_step_execute_func(func.cell, b)
      [] func.fn = "command" -> command_func(func.cell, b)
      [] func.fn = "shortcut" -> shortcut_func(func.cell, b)
      [] func.fn = "global_shortcut" -> global_shortcut_func(func.cell, b)
      [] func.fn = "message_shortcut" -> message_shortcut_func(func.cell, b)
      [] func.fn = "action" -> action_func(func.cell, b)
      [] func.fn = "block_action" ->
            _block_action(IF func.ref THEN obj ELSE Scalar(func.cell), b)
      [] func.fn = "attachment_action" -> _attachment_action(func.cell, b)
      [] func.fn = "dialog_submission" -> _dialog_submission(func.cell, b)
      [] func.fn = "dialog_cancellation" -> _dialog_cancellation(func.cell, b)
      [] func.fn = "workflow_step_edit" -> _workflow_step_edit(func.cell, b)
      [] func.fn = "view_submission" -> view_submission_func(func.cell, b)
      [] func.fn = "view_closed" -> view_closed_func(func.cell, b)
      [] func.fn = "workflow_step_save" -> workflow_step_save_func(func.cell, b)
      [] func.fn = "options" -> options_func(func.cell, b)
      [] func.fn = "block_suggestion" -> _block_suggestion(func.cell, b)
      [] func.fn = "dialog_suggestion" -> _dialog_suggestion(func.cell, b)

----------------------------------------------------------------------------
(* The builders *)

\* what a builder call produces: a matcher (st = "ok"), or the exception raised
Matcher(func, asyncio) == [st |-> "ok", func |-> func, asyncio |-> asyncio]
Raise(e) == [st |-> e, func |-> NoFunc, asyncio |-> FALSE]
Unbuilt == [st |-> "unbuilt", func |-> NoFunc, asyncio |-> FALSE]

\* Both branches wrap the same func: AsyncBuiltinListenerMatcher around
\* async_fun, BuiltinListenerMatcher around func itself.
build_listener_matcher(func, asyncio) == Matcher(func, asyncio)

event(c, asyncio) ==
    IF IsStrOrPattern(c)
    THEN build_listener_matcher(Closure("event_type", c.v), asyncio)
    ELSE IF c.shape /= "dict" THEN Raise("TypeError")
    ELSE IF c.d.type /= Absent
    THEN build_listener_matcher(ClosureOverMapping("event_dict"), asyncio)
    ELSE Raise("BoltError")

workflow_step_execute(callback_id, asyncio) ==
    build_listener_matcher(Closure("workflow_step_execute", callback_id), asyncio)

command(command_, asyncio) ==
    build_listener_matcher(Closure("command", command_), asyncio)

global_shortcut(callback_id, asyncio) ==
    build_listener_matcher(Closure("global_shortcut", callback_id), asyncio)

message_shortcut(callback_id, asyncio) ==
    build_listener_matcher(Closure("message_shortcut", callback_id), asyncio)

shortcut_always_global(c, asyncio) ==
    IF IsStrOrPattern(c)
    THEN build_listener_matcher(Closure("shortcut", c.v), asyncio)
    ELSE IF c.shape /= "dict" THEN Raise("TypeError")
    ELSE IF c.d.type /= Absent /\ c.d.callback_id /= Absent
    THEN global_shortcut(c.d.callback_id, asyncio)
    ELSE Raise("BoltError")

shortcut(c, asyncio) ==
    IF IsStrOrPattern(c)
    THEN build_listener_matcher(Closure("shortcut", c.v), asyncio)
    ELSE IF c.shape /= "dict" THEN Raise("TypeError")
    ELSE IF c.d.type /= Absent /\ c.d.callback_id /= Absent
    THEN IF c.d.type = Str(S_shortcut)
         THEN global_shortcut(c.d.callback_id, asyncio)
         ELSE IF c.d.type = Str(S_message_action)
         THEN message_shortcut(c.d.callback_id, asyncio)
         ELSE Raise("BoltError")
    ELSE Raise("BoltError")

block_action(c, asyncio) ==
    build_listener_matcher(
        IF c.shape = "dict" THEN ClosureOverMapping("block_action")
        ELSE Closure("block_action", c.v),
        asyncio)

attachment_action(callback_id, asyncio) ==
    build_listener_matcher(Closure("attachment_action", callback_id), asyncio)

dialog_submission(callback_id, asyncio) ==
    build_listener_matcher(Closure("dialog_submission", callback_id), asyncio)

dialog_cancellation(callback_id, asyncio) ==
    build_listener_matcher(Closure("dialog_cancellation", callback_id), asyncio)

workflow_step_edit(callback_id, asyncio) ==
    build_listener_matcher(Closure("workflow_step_edit", callback_id), asyncio)

\* the outcome of a call one of whose arguments is constraints["callback_id"]:
\* the subscript raises KeyError when the key is not in the mapping
WithCallbackId(c, outcome) ==
    IF c.d.callback_id = Absent THEN Raise("KeyError") ELSE outcome

action(c, asyncio) ==
    IF IsStrOrPattern(c)
    THEN build_listener_matcher(Closure("action", c.v), asyncio)
    ELSE IF c.shape /= "dict" THEN Raise("TypeError")
    ELSE IF c.d.type /= Absent
    THEN LET action_type == c.d.type IN
         IF action_type = Str(S_block_actions) THEN block_action(c, asyncio)
         ELSE IF action_type = Str(S_interactive_message)
         THEN WithCallbackId(c, attachment_action(c.d.callback_id, asyncio))
         ELSE IF action_type = Str(S_dialog_submission)
         THEN WithCallbackId(c, dialog_submission(c.d.callback_id, asyncio))
         ELSE IF action_type = Str(S_dialog_cancellation)
         THEN WithCallbackId(c, dialog_cancellation(c.d.callback_id, asyncio))
         ELSE IF action_type = Str(S_workflow_step_edit)
         THEN WithCallbackId(c, workflow_step_edit(c.d.callback_id, asyncio))
         ELSE Raise("BoltError")
    ELSE IF c.d.action_id /= Absent THEN block_action(c, asyncio)
    ELSE Raise("BoltError")

view_submission(callback_id, asyncio) ==
    build_listener_matcher(Closure("view_submission", callback_id), asyncio)

view_closed(callback_id, asyncio) ==
    build_listener_matcher(Closure("view_closed", callback_id), asyncio)

view(c, asyncio) ==
    IF IsStrOrPattern(c) THEN view_submission(c.v, asyncio)
    ELSE IF c.shape /= "dict" THEN Raise("TypeError")
    ELSE IF c.d.type /= Absent
    THEN IF c.d.type = Str(S_view_submission)
         THEN WithCallbackId(c, view_submission(c.d.callback_id, asyncio))
         ELSE IF c.d.type = Str(S_view_closed)
         THEN WithCallbackId(c, view_closed(c.d.callback_id, asyncio))
         ELSE Raise("BoltError")
    ELSE Raise("BoltError")

workflow_step_save(callback_id, asyncio) ==
    build_listener_matcher(Closure("workflow_step_save", callback_id), asyncio)

block_suggestion(action_id, asyncio) ==
    build_listener_matcher(Closure("block_suggestion", action_id), asyncio)

dialog_suggestion(callback_id, asyncio) ==
    build_listener_matcher(Closure("dialog_suggestion", callback_id), asyncio)

options(c, asyncio) ==
    IF IsStrOrPattern(c)
    THEN build_listener_matcher(Closure("options", c.v), asyncio)
    ELSE IF c.shape /= "dict" THEN Raise("TypeError")
    ELSE IF c.d.action_id /= Absent THEN block_suggestion(c.d.action_id, asyncio)
    ELSE IF c.d.callback_id /= Absent THEN dialog_suggestion(c.d.callback_id, asyncio)
    ELSE Raise("BoltError")

\* the builders that take a constraint of any shape, and those whose
\* parameter is documented as a str or a Pattern
ShapeBuilders == {"event", "shortcut", "action", "block_action", "view", "options"}
ScalarBuilders ==
    {"command", "workflow_step_execute", "global_shortcut", "message_shortcut",
     "attachment_action", "dialog_submission", "dialog_cancellation",
     "workflow_step_edit", "view_submission", "view_closed", "workflow_step_save",
     "block_suggestion", "dialog_suggestion"}
Builders == ShapeBuilders \cup ScalarBuilders

\* the call name(c, asyncio)
Build(name, c, asyncio) ==
    CASE name = "event" -> event(c, asyncio)
      [] name = "shortcut" -> shortcut(c, asyncio)
      [] name = "action" -> action(c, asyncio)
      [] name = "block_action" -> block_action(c, asyncio)
      [] name = "view" -> view(c, asyncio)
      [] name = "options" -> options(c, asyncio)
      [] name = "command" -> command(c.v, asyncio)
      [] name = "workflow_step_execute" -> workflow_step_execute(c.v, asyncio)
      [] name = "global_shortcut" -> global_shortcut(c.v, asyncio)
      [] name = "message_shortcut" -> message_shortcut(c.v, asyncio)
      [] name = "attachment_action" -> attachment_action(c.v, asyncio)
      [] name = "dialog_submission" -> dialog_submission(c.v, asyncio)
      [] name = "dialog_cancellation" -> dialog_cancellation(c.v, asyncio)
      [] name = "workflow_step_edit" -> workflow_step_edit(c.v, asyncio)
      [] name = "view_submission" -> view_submission(c.v, asyncio)
      [] name = "view_closed" -> view_closed(c.v, asyncio)
      [] name = "workflow_step_save" -> workflow_step_save(c.v, asyncio)
      [] name = "block_suggestion" -> block_suggestion(c.v, asyncio)
      [] name = "dialog_suggestion" -> dialog_suggestion(c.v, asyncio)

----------------------------------------------------------------------------
(* The constraints a caller hands to each builder *)

PatA == Pattern(S_a, FALSE, FALSE)

IdConstraints == {Str(S_a), PatA, None, Other}
TypeConstraints == {Str(S_message), Pattern(S_message, FALSE, FALSE), None, Other}

EventDicts ==
    {Dict(t, s, Absent, Absent, Absent) :
        t \in {Absent, Str(S_message), Pattern(S_message, FALSE, FALSE), Other},
        s \in {Absent, None, Str(S_message_deleted), Other}}

ShortcutDicts ==
    {Dict(t, Absent, c, Absent, Absent) :
        t \in {Absent, Str(S_shortcut), Str(S_message_action), Str(S_unknown_type)},
        c \in {Absent, Str(S_a), PatA, Other}}

ActionTypes ==
    {S_block_actions, S_interactive_message, S_dialog_submission,
     S_dialog_cancellation, S_workflow_step_edit}

ActionDicts ==
    {Dict(t, Absent, c, a, b) :
        t \in {Absent, Str(S_unknown_type)} \cup {Str(k) : k \in ActionTypes},
        c \in {Absent, Str(S_a)}, a \in {Absent, Str(S_a)}, b \in {Absent, Str(S_a)}}

BlockActionDicts ==
    {Dict(Absent, Absent, Absent, a, b) :
        a \in {Absent, Str(S_a), PatA, Other},
        b \in {Absent, None, Str(S_a), PatA}}

ViewDicts ==
    {Dict(t, Absent, c, Absent, Absent) :
        t \in {Absent, Str(S_view_submission), Str(S_view_closed), Str(S_unknown_type)},
        c \in {Absent, Str(S_a), PatA}}

OptionsDicts ==
    {Dict(Absent, Absent, c, a, Absent) :
        c \in {Absent, Str(S_a), PatA}, a \in {Absent, Str(S_a), PatA}}

DictsOf(name) ==
    CASE name = "event" -> EventDicts
      [] name = "shortcut" -> ShortcutDicts
      [] name = "action" -> ActionDicts
      [] name = "block_action" -> BlockActionDicts
      [] name = "view" -> ViewDicts
      [] name = "options" -> OptionsDicts
      [] OTHER -> {}

ConstraintsOf(name) ==
    {Scalar(v) : v \in IF name = "event" THEN TypeConstraints ELSE IdConstraints}
    \cup {Mapping(d) : d \in DictsOf(name)}

----------------------------------------------------------------------------
(* Evaluation *)

\* BuiltinListenerMatcher.matches: func is called with the request's body
matches(self, b, obj) == Call(self.func, b, obj)

async_fun_no_call(func, b, obj) == "False"

\* async_fun of build_listener_matcher, run to its return
async_fun(func, b, obj) == Call(func, b, obj)

----------------------------------------------------------------------------
(* The state machine *)

NoCall == [name |-> "none", c |-> Scalar(Absent)]
NoArgs == [c |-> Absent, input |-> Absent]

Init ==
    /\ constraints = Scalar(Absent)
    /\ built = NoCall
    /\ reg = Unbuilt
    /\ body = EmptyBody
    /\ result = "NoResult"
    /\ mutations = 0
    /\ m_args = NoArgs
    /\ m_result = "NoResult"

\* the caller registers a listener: name(c, asyncio)
Register(name, c, asyncio) ==
    /\ reg.st = "unbuilt"
    /\ constraints' = c
    /\ built' = [name |-> name, c |-> c]
    /\ reg' = Build(name, c, asyncio)
    /\ UNCHANGED <<body, result, mutations, m_args, m_result>>

\* the dispatcher evaluates a synchronous matcher on a request body; the
\* call runs to its end before anything else happens
Evaluate(b) ==
    /\ reg.st = "ok"
    /\ ~reg.asyncio
    /\ result = "NoResult"
    /\ body' = b
    /\ result' = matches(reg, b, constraints)
    /\ UNCHANGED <<constraints, built, reg, mutations, m_args, m_result>>

\* the dispatcher calls matches() of an asynchronous matcher: a coroutine
\* that has not run yet
StartAsync(b) ==
    /\ reg.st = "ok"
    /\ reg.asyncio
    /\ result = "NoResult"
    /\ body' = b
    /\ result' = "Pending"
    /\ UNCHANGED <<constraints, built, reg, mutations, m_args, m_result>>

\* the coroutine is awaited to completion
Await ==
    /\ result = "Pending"
    /\ result' = async_fun(reg.func, body, constraints)
    /\ UNCHANGED <<constraints, built, reg, body, mutations, m_args, m_result>>

\* the coroutine is cancelled before it ran
Cancel ==
    /\ result = "Pending"
    /\ result' = "CancelledError"
    /\ UNCHANGED <<constraints, built, reg, body, mutations, m_args, m_result>>

\* the dispatcher has read the outcome and turns to the next request
Finish ==
    /\ result \notin {"NoResult", "Pending"}
    /\ body' = EmptyBody
    /\ result' = "NoResult"
    /\ UNCHANGED <<constraints, built, reg, mutations, m_args, m_result>>

\* the caller, who still holds the mapping it passed, assigns to one key:
\* constraints[k] = "z".  It runs between two evaluations, or while a
\* coroutine is suspended.
Mutate(k) ==
    /\ reg.st = "ok"
    /\ result \in {"NoResult", "Pending"}
    /\ constraints.shape = "dict"
    /\ mutations < MaxMutations
    /\ constraints.d[k] /= Str(S_z)
    /\ constraints' = [constraints EXCEPT !.d[k] = Str(S_z)]
    /\ mutations' = mutations + 1
    /\ UNCHANGED <<built, reg, body, result, m_args, m_result>>

Next ==
    \/ \E name \in Builders, asyncio \in BOOLEAN :
          \E c \in ConstraintsOf(name) : Register(name, c, asyncio)
    \/ \E b \in Bodies : Evaluate(b)
    \/ \E b \in Bodies : StartAsync(b)
    \/ Await
    \/ Cancel
    \/ Finish
    \/ \E k \in Keys : Mutate(k)

Spec == Init /\ [][Next]_vars

----------------------------------------------------------------------------
(* Direct calls of the pattern matcher *)

Alphabet == {"a", "b"}

RECURSIVE StringsUpTo(_)
StringsUpTo(n) ==
    IF n = 0 THEN {<<>>}
    ELSE StringsUpTo(n - 1)
         \cup {Append(s, ch) : s \in StringsUpTo(n - 1), ch \in Alphabet}

Strings == StringsUpTo(MaxLen)

MatchConstraints ==
    {None, Other} \cup {Str(s) : s \in Strings}
    \cup {Pattern(s, bol, eol) : s \in Strings, bol \in BOOLEAN, eol \in BOOLEAN}

MatchInputs == {None} \cup {Str(s) : s \in Strings}

InitMatches ==
    /\ constraints = Scalar(Absent)
    /\ built = NoCall
    /\ reg = Unbuilt
    /\ body = EmptyBody
    /\ result = "NoResult"
    /\ mutations = 0
    /\ m_args \in [c : MatchConstraints, input : MatchInputs]
    /\ m_result = "NoResult"

\* _matches(m_args.c, m_args.input) is called
ApplyMatches ==
    /\ m_result = "NoResult"
    /\ m_result' = _matches(m_args.c, m_args.input)
    /\ UNCHANGED <<constraints, built, reg, body, result, mutations, m_args>>

NextMatches == ApplyMatches

SpecMatches == InitMatches /\ [][NextMatches]_vars

----------------------------------------------------------------------------
(* Properties *)

\* the evaluation in hand has run to its end
Evaluated == result \in Outcomes

\* a str or a Pattern
IsValid(v) == v.t \in {"str", "pattern"}

\* the compiled pattern p occurs in input: input is pre, then the text of p,
\* then post, with pre empty under ^ and post empty under $
Found(p, input) ==
    \E i \in 0..Len(input), j \in 0..Len(input) :
        /\ i <= j
        /\ SubSeq(input, i + 1, j) = p.s
        /\ p.bol => i = 0
        /\ p.eol => j = Len(input)

\* C4: _matches returns False when the constraint or the input is None;
\* otherwise a str constraint gives True exactly when the input equals it,
\* and a Pattern gives True exactly when it occurs somewhere in the input.
C4_MatchesContract ==
    m_result /= "NoResult" =>
        LET c == m_args.c
            input == m_args.input
        IN  /\ (c = None \/ input = None) => m_result = "False"
            /\ (c.t = "str" /\ input.t = "str") => m_result = Bool(input.s = c.s)
            /\ (c.t = "pattern" /\ input.t = "str") => m_result = Bool(Found(c, input.s))

\* a Pattern is found inside an input that is longer than the pattern's text
C4_Witness ==
    /\ m_result = "True"
    /\ m_args.c.t = "pattern"
    /\ m_args.input.t = "str"
    /\ m_args.input.s /= m_args.c.s

\* the matcher was built from a valid constraint: a str, a Pattern, or a
\* mapping with the keys its builder reads, each holding a str or a Pattern
\* (subtype may hold None)
ValidMapping(name, d) ==
    CASE name = "event" ->
            IsValid(d.type) /\ (d.subtype = Absent \/ d.subtype = None \/ IsValid(d.subtype))
      [] name = "block_action" ->
            IsValid(d.action_id) /\ (d.block_id = Absent \/ IsValid(d.block_id))
      [] name = "action" ->
            IF d.type = Absent \/ d.type = Str(S_block_actions)
            THEN IsValid(d.action_id) /\ (d.block_id = Absent \/ IsValid(d.block_id))
            ELSE IsValid(d.callback_id)
      [] name \in {"shortcut", "view"} -> IsValid(d.type) /\ IsValid(d.callback_id)
      [] name = "options" -> IsValid(d.action_id) \/ IsValid(d.callback_id)
      [] OTHER -> FALSE

ValidConstraint(name, c) ==
    IsStrOrPattern(c) \/ (c.shape = "dict" /\ ValidMapping(name, c.d))

\* C1: a matcher built from a valid constraint returns a boolean on every
\* body and never raises; a body that lacks the compared field gives False.
C1_NeverRaises ==
    (/\ reg.st = "ok"
     /\ ValidConstraint(built.name, built.c)
     /\ constraints = built.c
     /\ Evaluated)
        => result \in {"True", "False"}

\* C2: every builder rejects a constraint that is neither a str, nor a
\* Pattern, nor a mapping (an int, say): the call returns no matcher.
C2_BuildersValidate ==
    (built.name /= "none" /\ built.c = Scalar(Other)) => reg.st /= "ok"

\* C3: every evaluation of a built matcher returns what the constraint, as it
\* was when the matcher was built, gives on the body.
C3_FixedAtBuild ==
    (reg.st = "ok" /\ Evaluated) => result = Call(reg.func, body, built.c)

\* C5: a matcher built from a constraint that is neither None, nor a str,
\* nor a Pattern raises BoltError on every body.
C5_InvalidTypeAlwaysRaises ==
    (/\ reg.st = "ok"
     /\ built.c = Scalar(Other)
     /\ Evaluated)
        => result = "BoltError"

\* v matches the field f of a body: the field is there and _matches says True
Holds(v, f) == f /= Absent /\ _matches(v, f) = "True"

\* C6: an event matcher over a mapping {type: T, subtype: S} gives False on a
\* body that is no event or whose event type does not match T; on the other
\* bodies, with S None it gives True exactly when the event has no subtype
\* key, and with S a subtype exactly when the event's subtype matches S.
\* T and S are what the mapping holds when the matcher runs.
C6_EventSubtypeRule ==
    (/\ built.name = "event"
     /\ reg.st = "ok"
     /\ constraints.shape = "dict"
     /\ IsValid(constraints.d.type)
     /\ constraints.d.subtype = None \/ IsValid(constraints.d.subtype)
     /\ Evaluated)
        => LET T == constraints.d.type
               S == constraints.d.subtype
               e == body.event
           IN  IF ~(is_event(body) /\ Holds(T, e.type)) THEN result = "False"
               ELSE IF S = None THEN result = Bool(e.subtype = Absent)
               ELSE result = Bool(Holds(S, e.subtype))

\* a message event that carries a subtype is turned down by {subtype: None}
C6_Witness ==
    /\ built.name = "event"
    /\ reg.st = "ok"
    /\ constraints = Mapping(Dict(Str(S_message), None, Absent, Absent, Absent))
    /\ is_event(body)
    /\ body.event.type = Str(S_message)
    /\ body.event.subtype = Str(S_message_deleted)
    /\ result = "False"

\* the body b with the block_id of its action replaced by f
WithBlockId(b, f) == [b EXCEPT !.action.block_id = f]

ActionCheck(C, b) ==
    \/ is_block_actions(b) /\ Holds(C, to_action(b).action_id)
    \/ is_attachment_action(b) /\ Holds(C, b.callback_id)
    \/ is_dialog_submission(b) /\ Holds(C, b.callback_id)
    \/ is_dialog_cancellation(b) /\ Holds(C, b.callback_id)
    \/ is_workflow_step_edit(b) /\ Holds(C, b.callback_id)

\* C8: action(C), C a str or a Pattern, returns on every body the OR of the
\* five checks.
C8_ActionIsOrOfFive ==
    (/\ built.name = "action"
     /\ reg.st = "ok"
     /\ IsStrOrPattern(built.c)
     /\ Evaluated)
        => result = Bool(ActionCheck(built.c.v, body))

\* the call of the sub-builder that the type of the mapping d names
Delegate(name, d, asyncio) ==
    CASE name = "shortcut" /\ d.type = Str(S_shortcut) ->
            global_shortcut(d.callback_id, asyncio)
      [] name = "shortcut" /\ d.type = Str(S_message_action) ->
            message_shortcut(d.callback_id, asyncio)
      [] name = "action" /\ d.type = Str(S_block_actions) ->
            block_action(Mapping(d), asyncio)
      [] name = "action" /\ d.type = Str(S_interactive_message) ->
            attachment_action(d.callback_id, asyncio)
      [] name = "action" /\ d.type = Str(S_dialog_submission) ->
            dialog_submission(d.callback_id, asyncio)
      [] name = "action" /\ d.type = Str(S_dialog_cancellation) ->
            dialog_cancellation(d.callback_id, asyncio)
      [] name = "action" /\ d.type = Str(S_workflow_step_edit) ->
            workflow_step_edit(d.callback_id, asyncio)
      [] name = "view" /\ d.type = Str(S_view_submission) ->
            view_submission(d.callback_id, asyncio)
      [] name = "view" /\ d.type = Str(S_view_closed) ->
            view_closed(d.callback_id, asyncio)

\* the values of type that a builder dispatches on
TypesOf(name) ==
    CASE name = "shortcut" -> {Str(S_shortcut), Str(S_message_action)}
      [] name = "action" -> {Str(k) : k \in ActionTypes}
      [] name = "view" -> {Str(S_view_submission), Str(S_view_closed)}

\* C9: shortcut, action and view, given a mapping with type, return the
\* matcher of the sub-builder that type names, called with the mapping's
\* callback_id (block_action: with the mapping), and that matcher gives on
\* every body what the sub-builder's gives; any other type raises BoltError.
C9_DispatchOnType ==
    (/\ built.name \in {"shortcut", "action", "view"}
     /\ built.c.shape = "dict"
     /\ built.c.d.type /= Absent)
        => LET d == built.c.d IN
           IF d.type \in TypesOf(built.name)
           THEN (d.callback_id /= Absent \/ d.type = Str(S_block_actions))
                    => /\ reg.st = "ok"
                       /\ Evaluated =>
                            result = Call(Delegate(built.name, d, reg.asyncio).func,
                                          body, constraints)
           ELSE reg.st = "BoltError"

\* shortcut({type: "message_action", callback_id: "a"}) matches a message shortcut
C9_Witness ==
    /\ built.name = "shortcut"
    /\ built.c.shape = "dict"
    /\ built.c.d.type = Str(S_message_action)
    /\ is_message_shortcut(body)
    /\ result = "True"

\* C10: an asynchronous matcher, once awaited to completion, gives what the
\* synchronous matcher of the same builder call gives on the body.  (Until
\* then result is Pending, and after a cancellation CancelledError: neither
\* is a boolean.)
C10_AsyncAgreesWithSync ==
    (reg.st = "ok" /\ reg.asyncio)
        => (Evaluated =>
                result = matches(Build(built.name, built.c, FALSE), body, constraints))

\* an awaited asynchronous matcher has matched
C10_Witness ==
    /\ reg.st = "ok"
    /\ reg.asyncio
    /\ result = "True"

====
